---- MODULE Spec2Model ----
(***************************************************************************)
(* Model of graph/src/lib.rs: the substreams module that extracts vault    *)
(* and position events from a block's logs (map_events) and turns them     *)
(* into entity rows (graph_out).                                           *)
(*                                                                         *)
(* Byte strings are sequences of 0..255.  Text strings are sequences of    *)
(* one-character strings, so that formatting and parsing are computed.     *)
(* A u64 is four 16-bit limbs, most significant first (TLC integers are    *)
(* 32 bits wide, a u64 does not fit one).                                  *)
(***************************************************************************)
EXTENDS Integers, Sequences, FiniteSets, TLC

\* ---------------------------------------------------------------- bounds

\* Most logs in a block of the main specification.
MaxLogs == 3
\* Most logs in a block of the specification with a remembered invocation.
MaxSeqLogs == 2
\* Most bytes that follow the first 32-byte word in a decoded payload.
MaxExtra == 1

\* ------------------------------------------------------- program constants

FACTORY_ADDRESS ==
  << "0", "x", "0", "0", "8", "D", "4", "D", "d", "9", "3", "4", "f", "9",
     "8", "1", "1", "E", "7", "6", "8", "F", "7", "1", "A", "b", "C", "e",
     "5", "9", "E", "1", "9", "3", "D", "C", "4", "0", "7", "C", "F", "8" >>

VAULT_CREATED_SIG ==
  << "0", "x", "b", "9", "f", "8", "4", "b", "8", "e", "6", "5", "1", "6",
     "4", "b", "1", "4", "4", "3", "9", "a", "e", "3", "6", "2", "0", "5",
     "1", "9", "b", "a", "4", "d", "2", "a", "f", "4", "c", "9", "6", "b",
     "1", "3", "9", "6", "b", "1", "7", "7", "2", "9", "4", "6", "e", "8",
     "9", "7", "1", "5", "9", "a", "4", "5", "a", "7" >>

\* Mutant: the position signature pasted from the vault signature.
POSITION_OPENED_SIG_pasted == VAULT_CREATED_SIG

POSITION_OPENED_SIG ==
  << "0", "x", "3", "c", "9", "2", "d", "6", "9", "9", "a", "2", "f", "0",
     "c", "d", "9", "7", "4", "2", "c", "8", "a", "1", "4", "e", "b", "a",
     "5", "a", "8", "a", "d", "4", "b", "5", "1", "4", "a", "4", "8", "0",
     "e", "e", "8", "a", "2", "9", "7", "e", "3", "3", "0", "4", "a", "1",
     "e", "9", "7", "c", "2", "b", "3", "3", "2", "d" >>

\* ------------------------------------------------------------ hex strings

LowerHex ==
  << "0", "1", "2", "3", "4", "5", "6", "7",
     "8", "9", "a", "b", "c", "d", "e", "f" >>

UpperHex ==
  << "0", "1", "2", "3", "4", "5", "6", "7",
     "8", "9", "A", "B", "C", "D", "E", "F" >>

\* substreams::Hex, displayed: two lower-case digits per byte.
RECURSIVE Hex(_)
Hex(bytes) ==
  IF bytes = << >> THEN << >>
  ELSE << LowerHex[(Head(bytes) \div 16) + 1], LowerHex[(Head(bytes) % 16) + 1] >>
       \o Hex(Tail(bytes))

\* format!("0x{}", Hex(bytes))
Format0x(bytes) == << "0", "x" >> \o Hex(bytes)

\* str::trim_start_matches("0x"): strips every leading repetition of "0x".
RECURSIVE trim_start_matches_0x(_)
trim_start_matches_0x(s) ==
  IF Len(s) >= 2 /\ s[1] = "0" /\ s[2] = "x"
  THEN trim_start_matches_0x(SubSeq(s, 3, Len(s)))
  ELSE s

\* The value of one hex digit, either case (hex::decode accepts both).
HexDigitValue(c) ==
  CHOOSE v \in 0..15 : LowerHex[v + 1] = c \/ UpperHex[v + 1] = c

\* hex::decode(s).unwrap() on a well-formed string: one byte per two digits.
RECURSIVE hex_decode(_)
hex_decode(s) ==
  IF Len(s) < 2 THEN << >>
  ELSE << HexDigitValue(s[1]) * 16 + HexDigitValue(s[2]) >>
       \o hex_decode(SubSeq(s, 3, Len(s)))

\* --------------------------------------------------------------- integers

\* Mutant: the eight bytes read least significant first.
from_le_bytes(bytes) ==
  [k \in 1..4 |-> bytes[10 - 2 * k] * 256 + bytes[9 - 2 * k]]

\* u64::from_be_bytes on eight bytes: the first byte is the most significant.
\* Each limb holds two consecutive bytes.
from_be_bytes(bytes) ==
  [k \in 1..4 |-> bytes[2 * k - 1] * 256 + bytes[2 * k]]

\* decode_uint256 faults (slice index out of range) on fewer than 32 bytes.
decode_uint256_faults(data) == Len(data) < 32

\* decode_uint256: bytes 24..32 (0-based, end excluded) as a big-endian u64.
decode_uint256(data) == from_be_bytes(SubSeq(data, 25, 32))

\* A small natural number as a u64.
U64FromNat(n) == << 0, 0, n \div 65536, n % 65536 >>

U64Zero == << 0, 0, 0, 0 >>

\* One step of long division of a u64 by ten: quotient (limbs) and remainder.
U64DivMod10(v) ==
  LET c1 == v[1]
      c2 == (c1 % 10) * 65536 + v[2]
      c3 == (c2 % 10) * 65536 + v[3]
      c4 == (c3 % 10) * 65536 + v[4]
  IN  [q |-> << c1 \div 10, c2 \div 10, c3 \div 10, c4 \div 10 >>, r |-> c4 % 10]

RECURSIVE U64Digits(_)
U64Digits(v) ==
  IF v = U64Zero THEN << >>
  ELSE Append(U64Digits(U64DivMod10(v).q), LowerHex[U64DivMod10(v).r + 1])

\* u64::to_string: decimal, no leading zeros, "0" for zero.
u64_to_string(v) == IF v = U64Zero THEN << "0" >> ELSE U64Digits(v)

\* ----------------------------------------------------------------- inputs

Rep(n, b) == [k \in 1..n |-> b]

SeqsUpTo(S, n) == UNION {[1..k -> S] : k \in 0..n}

\* Topic words a log may carry: the two signatures as raw bytes, and others.
VaultSigTopic ==
  << 185, 248, 75, 142, 101, 22, 75, 20, 67, 154, 227, 98, 5, 25, 186, 77,
     42, 244, 201, 107, 19, 150, 177, 119, 41, 70, 232, 151, 21, 154, 69, 167 >>

PositionSigTopic ==
  << 60, 146, 214, 153, 162, 240, 205, 151, 66, 200, 161, 78, 186, 90, 138, 212,
     181, 20, 164, 128, 238, 138, 41, 126, 51, 4, 161, 233, 124, 43, 51, 45 >>

\* The vault signature with its last byte changed.
NearSigTopic == SubSeq(VaultSigTopic, 1, 31) \o << 168 >>

TopicT1 == Rep(32, 17)
TopicT2 == Rep(32, 171)
TopicT3 == Rep(31, 0) \o << 7 >>

AddrA == Rep(20, 26)
AddrB == Rep(20, 176)

Data42 == Rep(31, 0) \o << 42 >>
Data7 == Rep(31, 0) \o << 7 >>
\* Two words: a first word above 2^64-1 whose low eight bytes are all FF.
DataHigh == Rep(24, 1) \o Rep(8, 255) \o Rep(32, 9)
DataShort == Rep(31, 255)

MkLog(a, t, d) == [address |-> a, topics |-> t, data |-> d]

LogVaultA == MkLog(AddrA, << VaultSigTopic, TopicT1, TopicT2 >>, Data42)
\* Same emitting address as LogVaultA, other fields, one topic more.
LogVaultA2 == MkLog(AddrA, << VaultSigTopic, TopicT2, TopicT3, TopicT1 >>, DataHigh)
LogPosition == MkLog(AddrB, << PositionSigTopic, TopicT1, TopicT2, TopicT3 >>, Data7)
\* Another well-formed position log: other owner, amounts and id, one topic more.
LogPosition2 ==
  MkLog(AddrA, << PositionSigTopic, TopicT3, TopicT1, TopicT2, TopicT1 >>, DataHigh)
\* Signatures at other topic indexes only, short data.
LogOther == MkLog(AddrA, << NearSigTopic, VaultSigTopic, PositionSigTopic >>, DataShort)
LogNoTopics == MkLog(AddrB, << >>, Data42)
LogVaultFewTopics == MkLog(AddrA, << VaultSigTopic, TopicT1 >>, Data42)
LogVaultShortData == MkLog(AddrB, << VaultSigTopic, TopicT1, TopicT2 >>, DataShort)
LogPositionFewTopics == MkLog(AddrA, << PositionSigTopic, TopicT1, TopicT2 >>, Data7)
LogPositionShortData ==
  MkLog(AddrB, << PositionSigTopic, TopicT1, TopicT2, TopicT3 >>, DataShort)

Logs ==
  { LogVaultA, LogVaultA2, LogPosition, LogPosition2, LogOther, LogNoTopics, LogVaultFewTopics,
    LogVaultShortData, LogPositionFewTopics, LogPositionShortData }

SeqLogs == { LogVaultA, LogPosition, LogVaultFewTopics }

\* Block number and Unix seconds of the header.
Metas ==
  { [number |-> 0, timestamp |-> 0],
    [number |-> 18500000, timestamp |-> 1700000000] }

BlocksOf(L, n, M) ==
  { [number |-> m.number, timestamp |-> m.timestamp, logs |-> l] :
      m \in M, l \in SeqsUpTo(L, n) }

Blocks == BlocksOf(Logs, MaxLogs, Metas)

SeqBlocks == BlocksOf(SeqLogs, MaxSeqLogs, { [number |-> 7, timestamp |-> 65536] })

\* Payloads for decode_uint256 alone: a 24-byte prefix, eight low bytes, a tail.
LowBytes ==
  [1..8 -> {0, 255}] \cup { << 0, 0, 0, 0, 0, 0, 0, 42 >>, << 1, 2, 3, 4, 5, 6, 7, 8 >> }

DecodeInputs ==
  { Rep(24, p) \o low \o Rep(e, x) :
      p \in {0, 1, 255}, low \in LowBytes, e \in 0..MaxExtra, x \in {0, 255} }
  \cup { DataShort, << >> }

\* ------------------------------------------------------------------ state

VARIABLES
  block,      \* the block handed to this invocation
  pc,         \* "map_events", "graph_vaults", "graph_positions", "done",
              \* "panicked"; "decode", "decoded" when decode_uint256 runs alone
  i,          \* 1-based index of the next element of the running for loop
  vaults,     \* map_events' local Vec of Vault records
  positions,  \* map_events' local Vec of Position records
  outcome,    \* how map_events ended: "pending", "ok", "err" or "panic"
  events,     \* the Events message map_events returned, if it returned one
  tables,     \* graph_out's local Tables: the create_row operations, in call order
  changes,    \* what graph_out returned, if it returned
  seen,       \* a remembered earlier invocation: its block and what it gave
  data,       \* the payload handed to decode_uint256 when it runs alone
  decoded     \* what decode_uint256 gave for it

vars ==
  << block, pc, i, vaults, positions, outcome, events, tables, changes, seen,
     data, decoded >>

NoEvents == [produced |-> FALSE, vaults |-> << >>, positions |-> << >>]
NoChanges == [produced |-> FALSE, rows |-> << >>]
NoBlock == [number |-> 0, timestamp |-> 0, logs |-> << >>]
NotSeen ==
  [set |-> FALSE, block |-> NoBlock, outcome |-> "pending",
   events |-> NoEvents, changes |-> NoChanges,
   ok_since |-> FALSE, panic_since |-> FALSE]
NotDecoded == [done |-> FALSE, fault |-> FALSE, value |-> U64Zero]

\* ------------------------------------------------------------- map_events

\* Vec::new()
NewVec == << >>

\* Mutant: the element is put in front.
push_front(vec, x) == << x >> \o vec

\* Vec::push
push(vec, x) == Append(vec, x)

\* Block::timestamp_seconds(): the header's seconds as a u64.
timestamp_seconds(b) == U64FromNat(b.timestamp)

\* Indexing topics[0] faults on a log without topics.
topic0_faults(log) == Len(log.topics) < 1

\* hex::decode(VAULT_CREATED_SIG.trim_start_matches("0x")).unwrap()
vault_created_sig == hex_decode(trim_start_matches_0x(VAULT_CREATED_SIG))

\* hex::decode(POSITION_OPENED_SIG.trim_start_matches("0x")).unwrap()
position_opened_sig == hex_decode(trim_start_matches_0x(POSITION_OPENED_SIG))

\* Mutant: only the first four bytes of the topic are compared.
is_vault_created_event_by_selector(log) ==
  LET topic0 == log.topics[1]
      sig    == vault_created_sig
  IN  SubSeq(topic0, 1, 4) = SubSeq(sig, 1, 4)

is_vault_created_event(log) ==
  LET topic0 == log.topics[1]
      sig    == vault_created_sig
  IN  topic0 = sig

is_position_opened_event(log) ==
  LET topic0 == log.topics[1]
      sig    == position_opened_sig
  IN  topic0 = sig

\* Building the Vault record indexes topics[1], topics[2] and data[24..32].
vault_faults(log) == Len(log.topics) < 3 \/ decode_uint256_faults(log.data)

\* Mutant: token0 and token1 read from each other's topic.
Vault_tokens_swapped(log, b) ==
  [ address      |-> Format0x(log.address),
    token0       |-> Format0x(log.topics[3]),
    token1       |-> Format0x(log.topics[2]),
    vault_id     |-> decode_uint256(log.data),
    block_number |-> b.number,
    timestamp    |-> u64_to_string(timestamp_seconds(b)),
    factory      |-> FACTORY_ADDRESS ]

Vault(log, b) ==
  [ address      |-> Format0x(log.address),
    token0       |-> Format0x(log.topics[2]),
    token1       |-> Format0x(log.topics[3]),
    vault_id     |-> decode_uint256(log.data),
    block_number |-> b.number,
    timestamp    |-> u64_to_string(timestamp_seconds(b)),
    factory      |-> FACTORY_ADDRESS ]

\* Building the Position record indexes data[24..32] and topics[1..3].
position_faults(log) == decode_uint256_faults(log.data) \/ Len(log.topics) < 4

Position(log, b) ==
  [ position_id  |-> decode_uint256(log.data),
    owner        |-> Format0x(log.topics[2]),
    amount0      |-> Format0x(log.topics[3]),
    amount1      |-> Format0x(log.topics[4]),
    block_number |-> b.number,
    timestamp    |-> u64_to_string(timestamp_seconds(b)),
    vault        |-> Format0x(log.address) ]

\* Whether one pass of the loop body over `log` panics.
body_faults(log) ==
  \/ topic0_faults(log)
  \/ is_vault_created_event(log) /\ vault_faults(log)
  \/ is_position_opened_event(log) /\ position_faults(log)

\* The state a fresh invocation on block b starts in: both Vecs empty.
Entered(b) ==
  /\ block = b
  /\ pc = "map_events"
  /\ i = 1
  /\ vaults = NewVec
  /\ positions = NewVec
  /\ outcome = "pending"
  /\ events = NoEvents
  /\ tables = << >>
  /\ changes = NoChanges

\* One pass of `for log in block.logs()`: the two ifs, in order.  A panic
\* ends the invocation; nothing is returned.
map_events_log ==
  /\ pc = "map_events"
  /\ i <= Len(block.logs)
  /\ LET log == block.logs[i] IN
       IF body_faults(log)
       THEN /\ pc' = "panicked"
            /\ outcome' = "panic"
            /\ UNCHANGED << i, vaults, positions >>
       ELSE /\ vaults' = IF is_vault_created_event(log)
                         THEN push(vaults, Vault(log, block)) ELSE vaults
            /\ positions' = IF is_position_opened_event(log)
                            THEN push(positions, Position(log, block)) ELSE positions
            /\ i' = i + 1
            /\ UNCHANGED << pc, outcome >>
  /\ UNCHANGED << block, events, tables, changes, seen, data, decoded >>

\* Ok(Events { vaults, positions }); the runtime then hands it to graph_out.
map_events_return ==
  /\ pc = "map_events"
  /\ i > Len(block.logs)
  /\ events' = [produced |-> TRUE, vaults |-> vaults, positions |-> positions]
  /\ outcome' = "ok"
  /\ pc' = "graph_vaults"
  /\ i' = 1
  /\ tables' = << >>
  /\ UNCHANGED << block, vaults, positions, changes, seen, data, decoded >>

\* -------------------------------------------------------------- graph_out

\* Mutant: an operation whose table and key were already used is dropped.
create_row_once(tbl, op) ==
  IF \E n \in 1..Len(tbl) : tbl[n].table = op.table /\ tbl[n].key = op.key
  THEN tbl
  ELSE Append(tbl, op)

\* Tables::create_row(table, key) followed by the .set calls: one operation.
create_row(tbl, op) == Append(tbl, op)

VaultRow(vault) ==
  [ table |-> "Vault",
    key   |-> vault.address,
    fields |->
      [ address     |-> vault.address,
        token0      |-> vault.token0,
        token1      |-> vault.token1,
        vaultId     |-> vault.vault_id,
        timestamp   |-> vault.timestamp,
        blockNumber |-> vault.block_number,
        factory     |-> vault.factory ] ]

\* Mutant: the row is keyed by the vault address, as in the first loop.
PositionRow_keyed_by_vault(position) ==
  [ table |-> "Position",
    key   |-> position.vault,
    fields |->
      [ positionId  |-> position.position_id,
        owner       |-> position.owner,
        amount0     |-> position.amount0,
        amount1     |-> position.amount1,
        timestamp   |-> position.timestamp,
        blockNumber |-> position.block_number,
        vault       |-> position.vault ] ]

PositionRow(position) ==
  [ table |-> "Position",
    key   |-> u64_to_string(position.position_id),
    fields |->
      [ positionId  |-> position.position_id,
        owner       |-> position.owner,
        amount0     |-> position.amount0,
        amount1     |-> position.amount1,
        timestamp   |-> position.timestamp,
        blockNumber |-> position.block_number,
        vault       |-> position.vault ] ]

\* One pass of `for vault in events.vaults`.
graph_out_vault ==
  /\ pc = "graph_vaults"
  /\ i <= Len(events.vaults)
  /\ tables' = create_row(tables, VaultRow(events.vaults[i]))
  /\ i' = i + 1
  /\ UNCHANGED << block, pc, vaults, positions, outcome, events, changes, seen,
                  data, decoded >>

\* The first loop is over; the second starts.
graph_out_next_loop ==
  /\ pc = "graph_vaults"
  /\ i > Len(events.vaults)
  /\ pc' = "graph_positions"
  /\ i' = 1
  /\ UNCHANGED << block, vaults, positions, outcome, events, tables, changes,
                  seen, data, decoded >>

\* One pass of `for position in events.positions`.
graph_out_position ==
  /\ pc = "graph_positions"
  /\ i <= Len(events.positions)
  /\ tables' = create_row(tables, PositionRow(events.positions[i]))
  /\ i' = i + 1
  /\ UNCHANGED << block, pc, vaults, positions, outcome, events, changes, seen,
                  data, decoded >>

\* Ok(tables.to_entity_changes()): the change set is represented by the
\* operations that were recorded, in call order (the Tables type itself
\* belongs to the substreams_entity_change crate).
graph_out_return ==
  /\ pc = "graph_positions"
  /\ i > Len(events.positions)
  /\ changes' = [produced |-> TRUE, rows |-> tables]
  /\ pc' = "done"
  /\ UNCHANGED << block, i, vaults, positions, outcome, events, tables, seen,
                  data, decoded >>

\* --------------------------------------------------------- specifications

\* One invocation of the two handlers on any block.
Init ==
  /\ \E b \in Blocks : Entered(b)
  /\ seen = NotSeen
  /\ data = << >>
  /\ decoded = NotDecoded

Next ==
  \/ map_events_log
  \/ map_events_return
  \/ graph_out_vault
  \/ graph_out_next_loop
  \/ graph_out_position
  \/ graph_out_return

Spec == Init /\ [][Next]_vars

\* Mutant: the two Vecs outlive the invocation (as statics would).
invoke_keeping_vecs ==
  /\ pc \in {"done", "panicked"}
  /\ \E b \in SeqBlocks : block' = b
  /\ pc' = "map_events"
  /\ i' = 1
  /\ outcome' = "pending"
  /\ events' = NoEvents
  /\ tables' = << >>
  /\ changes' = NoChanges
  /\ \/ seen' = [set |-> TRUE, block |-> block, outcome |-> outcome,
                 events |-> events, changes |-> changes,
                 ok_since |-> FALSE, panic_since |-> FALSE]
     \/ /\ seen.set
        /\ seen' = [seen EXCEPT !.ok_since = @ \/ outcome = "ok",
                                !.panic_since = @ \/ outcome = "panic"]
     \/ /\ ~seen.set
        /\ seen' = seen
  /\ UNCHANGED << vaults, positions, data, decoded >>

\* The runtime calls the handlers again, on the next block: map_events starts
\* with two new Vecs and graph_out with a new Tables.  `seen` either starts to
\* remember the invocation that just ended or notes how it ended.
invoke ==
  /\ pc \in {"done", "panicked"}
  /\ \E b \in SeqBlocks : block' = b
  /\ pc' = "map_events"
  /\ i' = 1
  /\ vaults' = NewVec
  /\ positions' = NewVec
  /\ outcome' = "pending"
  /\ events' = NoEvents
  /\ tables' = << >>
  /\ changes' = NoChanges
  /\ \/ seen' = [set |-> TRUE, block |-> block, outcome |-> outcome,
                 events |-> events, changes |-> changes,
                 ok_since |-> FALSE, panic_since |-> FALSE]
     \/ /\ seen.set
        /\ seen' = [seen EXCEPT !.ok_since = @ \/ outcome = "ok",
                                !.panic_since = @ \/ outcome = "panic"]
     \/ /\ ~seen.set
        /\ seen' = seen
  /\ UNCHANGED << data, decoded >>

\* A sequence of invocations, one block each.
InitSeq ==
  /\ \E b \in SeqBlocks : Entered(b)
  /\ seen = NotSeen
  /\ data = << >>
  /\ decoded = NotDecoded

NextSeq ==
  \/ invoke
  \/ map_events_log
  \/ map_events_return
  \/ graph_out_vault
  \/ graph_out_next_loop
  \/ graph_out_position
  \/ graph_out_return

SpecSeq == InitSeq /\ [][NextSeq]_vars

\* decode_uint256 called alone on a payload.
decode_uint256_call ==
  /\ pc = "decode"
  /\ decoded' = IF decode_uint256_faults(data)
                THEN [done |-> TRUE, fault |-> TRUE, value |-> U64Zero]
                ELSE [done |-> TRUE, fault |-> FALSE, value |-> decode_uint256(data)]
  /\ pc' = "decoded"
  /\ UNCHANGED << block, i, vaults, positions, outcome, events, tables, changes,
                  seen, data >>

InitDecode ==
  /\ data \in DecodeInputs
  /\ decoded = NotDecoded
  /\ pc = "decode"
  /\ block = NoBlock
  /\ i = 1
  /\ vaults = << >>
  /\ positions = << >>
  /\ outcome = "pending"
  /\ events = NoEvents
  /\ tables = << >>
  /\ changes = NoChanges
  /\ seen = NotSeen

NextDecode == decode_uint256_call

SpecDecode == InitDecode /\ [][NextDecode]_vars

\* ----------------------------------------------------------------- claims

\* What a log is, read from its raw bytes alone.
IsVaultLog(log) == Len(log.topics) >= 1 /\ log.topics[1] = VaultSigTopic
IsPositionLog(log) == Len(log.topics) >= 1 /\ log.topics[1] = PositionSigTopic
IsOtherLog(log) ==
  Len(log.topics) >= 1 /\ log.topics[1] \notin {VaultSigTopic, PositionSigTopic}
IsMalformedLog(log) ==
  \/ IsVaultLog(log) /\ (Len(log.topics) < 3 \/ Len(log.data) < 32)
  \/ IsPositionLog(log) /\ (Len(log.topics) < 4 \/ Len(log.data) < 32)

LogIndexes == 1..Len(block.logs)
VaultLogs == SelectSeq(block.logs, IsVaultLog)
PositionLogs == SelectSeq(block.logs, IsPositionLog)

\* C1: a block with a malformed log (and no log without topics) ends with an
\* error returned to the caller, and neither an Events batch nor rows are
\* produced.
C1_MalformedLogReturnsError ==
  ( /\ \E k \in LogIndexes : IsMalformedLog(block.logs[k])
    /\ \A k \in LogIndexes : Len(block.logs[k].topics) >= 1
    /\ pc # "map_events" )
  => ( outcome = "err" /\ events = NoEvents /\ changes = NoChanges )

\* C2: a log without topics is skipped or reported as an error value; reading
\* topic 0 never faults.
C2_NoTopicsClassifiedSafely ==
  ( pc \in {"map_events", "panicked"}
    /\ i \in LogIndexes
    /\ Len(block.logs[i].topics) = 0 )
  => ( pc # "panicked" /\ outcome # "panic" )

\* C3: a log whose first topic is neither signature leaves both sequences as
\* they are and causes no error, whatever its other topics and data; a block
\* without logs gives two empty sequences and no rows.
C3_OtherLogsIgnored ==
  /\ [][ ( pc = "map_events" /\ i \in LogIndexes /\ IsOtherLog(block.logs[i]) )
         => ( /\ vaults' = vaults
              /\ positions' = positions
              /\ pc' = "map_events"
              /\ outcome' = "pending"
              /\ i' = i + 1 ) ]_vars
  /\ [] ( block.logs = << >>
          => ( /\ pc # "panicked"
               /\ events.vaults = << >>
               /\ events.positions = << >>
               /\ changes.rows = << >>
               /\ tables = << >> ) )

\* A block of logs that match nothing (three of them) went through both handlers.
C3_Witness ==
  /\ pc = "done"
  /\ Len(block.logs) = 3
  /\ \A k \in LogIndexes : IsOtherLog(block.logs[k])
  /\ events = [produced |-> TRUE, vaults |-> << >>, positions |-> << >>]
  /\ changes = [produced |-> TRUE, rows |-> << >>]

\* C7: no log is taken for both kinds; the records never outnumber the logs
\* read so far, and a batch that is returned holds exactly one record per
\* matching log.
C7_AtMostOneKindPerLog ==
  /\ \A k \in LogIndexes :
       Len(block.logs[k].topics) >= 1
       => ~ ( is_vault_created_event(block.logs[k])
              /\ is_position_opened_event(block.logs[k]) )
  /\ pc = "map_events" => Len(vaults) + Len(positions) <= i - 1
  /\ events.produced
     => /\ Len(events.vaults) + Len(events.positions) <= Len(block.logs)
        /\ Len(events.vaults) = Len(VaultLogs)
        /\ Len(events.positions) = Len(PositionLogs)

\* A vault log, a position log and another log gave two records for three logs.
C7_Witness ==
  /\ events.produced
  /\ Len(block.logs) = 3
  /\ Len(events.vaults) = 1
  /\ Len(events.positions) = 1

\* The eight bytes of a u64, most significant first.
U64Bytes(v) ==
  << v[1] \div 256, v[1] % 256, v[2] \div 256, v[2] % 256,
     v[3] \div 256, v[3] % 256, v[4] \div 256, v[4] % 256 >>

IsU64(v) == Len(v) = 4 /\ \A k \in 1..4 : v[k] \in 0..65535

Digits == { LowerHex[k] : k \in 1..10 }
DigitValue(c) == CHOOSE v \in 0..9 : LowerHex[v + 1] = c

\* v * 10 + d on a u64.
U64MulAdd10(v, d) ==
  LET c4 == v[4] * 10 + d
      c3 == v[3] * 10 + (c4 \div 65536)
      c2 == v[2] * 10 + (c3 \div 65536)
      c1 == v[1] * 10 + (c2 \div 65536)
  IN  << c1 % 65536, c2 % 65536, c3 % 65536, c4 % 65536 >>

\* The u64 a decimal string denotes.
RECURSIVE DecimalValue(_)
DecimalValue(s) ==
  IF s = << >> THEN U64Zero
  ELSE U64MulAdd10(DecimalValue(SubSeq(s, 1, Len(s) - 1)), DigitValue(s[Len(s)]))

\* s is the decimal string of v: digits only, no leading zero.
IsDecimalOf(s, v) ==
  /\ Len(s) >= 1
  /\ \A k \in 1..Len(s) : s[k] \in Digits
  /\ Len(s) > 1 => s[1] # "0"
  /\ DecimalValue(s) = v

\* s is "0x" followed by the hex digits of bytes.
IsHexOf(s, bytes) ==
  /\ Len(s) = 2 + 2 * Len(bytes)
  /\ s[1] = "0"
  /\ s[2] = "x"
  /\ hex_decode(SubSeq(s, 3, Len(s))) = bytes

FactoryBytes ==
  << 0, 141, 77, 217, 52, 249, 129, 30, 118, 143,
     113, 171, 206, 89, 225, 147, 220, 64, 124, 248 >>

MaxU64String ==
  << "1", "8", "4", "4", "6", "7", "4", "4", "0", "7",
     "3", "7", "0", "9", "5", "5", "1", "6", "1", "5" >>

IsVaultRow(row) == row.table = "Vault"
IsPositionRow(row) == row.table = "Position"
VaultRows == SelectSeq(changes.rows, IsVaultRow)
PositionRows == SelectSeq(changes.rows, IsPositionRow)

C6_DecodeLowEightBytes ==
  ( pc = "decoded" /\ Len(data) >= 32 )
  => /\ decoded.done
     /\ ~decoded.fault
     /\ IsU64(decoded.value)
     /\ U64Bytes(decoded.value) = SubSeq(data, 25, 32)
     /\ SubSeq(data, 1, 32) = Rep(32, 0) => decoded.value = U64Zero
     /\ SubSeq(data, 25, 32) = Rep(8, 255)
        => u64_to_string(decoded.value) = MaxU64String

\* A word above 2^64-1 with eight low FF bytes, followed by more bytes, was decoded.
C6_Witness ==
  /\ pc = "decoded"
  /\ Len(data) > 32
  /\ data[1] = 255
  /\ SubSeq(data, 25, 32) = Rep(8, 255)
  /\ ~decoded.fault
  /\ u64_to_string(decoded.value) = MaxU64String

\* C8: the n-th vault record carries the n-th vault log's address and topics 1
\* and 2 as "0x" hex strings, the id of its first data word, the block's number
\* and seconds, and the fixed factory address.
C8_VaultEventFields ==
  events.produced
  => /\ Len(events.vaults) = Len(VaultLogs)
     /\ \A n \in 1..Len(VaultLogs) :
          LET v == events.vaults[n]
              log == VaultLogs[n]
          IN  /\ IsHexOf(v.address, log.address)
              /\ IsHexOf(v.token0, log.topics[2])
              /\ IsHexOf(v.token1, log.topics[3])
              /\ IsU64(v.vault_id)
              /\ U64Bytes(v.vault_id) = SubSeq(log.data, 25, 32)
              /\ v.block_number = block.number
              /\ IsDecimalOf(v.timestamp, U64FromNat(block.timestamp))
              /\ v.factory = FACTORY_ADDRESS
              /\ IsHexOf(v.factory, FactoryBytes)

\* A vault log with a fourth topic and a second data word, emitted by an
\* address that is not the factory, in a block with a real timestamp.
C8_Witness ==
  /\ events.produced
  /\ block.timestamp = 1700000000
  /\ Len(VaultLogs) >= 1
  /\ VaultLogs[1] = LogVaultA2
  /\ events.vaults[1].address # events.vaults[1].factory

\* C9: the n-th position record carries the id of the n-th position log's first
\* data word, topics 1 to 3 as owner, amount0 and amount1, and the log's own
\* address as vault; graph_out gives it one "Position" row keyed by the decimal
\* string of the id.
C9_PositionEventFields ==
  /\ events.produced
     => /\ Len(events.positions) = Len(PositionLogs)
        /\ \A n \in 1..Len(PositionLogs) :
             LET q == events.positions[n]
                 log == PositionLogs[n]
             IN  /\ IsU64(q.position_id)
                 /\ U64Bytes(q.position_id) = SubSeq(log.data, 25, 32)
                 /\ IsHexOf(q.owner, log.topics[2])
                 /\ IsHexOf(q.amount0, log.topics[3])
                 /\ IsHexOf(q.amount1, log.topics[4])
                 /\ IsHexOf(q.vault, log.address)
  /\ changes.produced
     => /\ Len(PositionRows) = Len(events.positions)
        /\ \A n \in 1..Len(PositionRows) :
             /\ IsDecimalOf(PositionRows[n].key, events.positions[n].position_id)
             /\ PositionRows[n].fields.positionId = events.positions[n].position_id
             /\ PositionRows[n].fields.vault = events.positions[n].vault

\* Two position logs, one with id 2^64-1 and a fifth topic, were mapped to rows.
C9_Witness ==
  /\ pc = "done"
  /\ PositionLogs = << LogPosition2, LogPosition >>
  /\ PositionRows[1].key = MaxU64String
  /\ PositionRows[2].key = << "7" >>

\* C10: an invocation on a block gives what an earlier invocation on the same
\* block gave, whatever was processed in between.
C10_SameBlockSameResult ==
  ( seen.set /\ seen.block = block /\ pc \in {"done", "panicked"} )
  => ( /\ seen.outcome = outcome
       /\ seen.events = events
       /\ seen.changes = changes )

\* A block was processed again after an invocation that panicked and one that
\* did not, and gave rows both times.
C10_Witness ==
  /\ seen.set
  /\ seen.block = block
  /\ seen.ok_since
  /\ seen.panic_since
  /\ pc = "done"
  /\ Len(changes.rows) = 2

====
